---- MODULE Spec2Model ----
(***************************************************************************)
(* SCGP::Profiler (src/Profiler.h): a growable pool of timing samples that  *)
(* forms an implicit call stack through parent indices, and its export to   *)
(* Chrome Tracing events.                                                   *)
(*                                                                          *)
(* Program state: SamplePool, SampleCount, CurrentSample, SampleCapacity,   *)
(* ClockStart; clock is std::chrono::steady_clock; appendTo is the caller's *)
(* vector handed to the append variant of ToChromeTracingEvents; returned   *)
(* is the value returned by the latest call (<<>> for a void call); heap is *)
(* the word that freshly allocated, not yet assigned memory holds.          *)
(*                                                                          *)
(* History variables (written by the actions, never read by them except     *)
(* for the caller's discipline in the guards):                              *)
(*   call        the latest call, its arguments and clock readings          *)
(*   beginCalls  number of BeginSample calls so far                         *)
(*   endCalls    number of EndSample calls so far                           *)
(*   growths     number of pool reallocations so far                        *)
(*   endWritten  indices whose EndNanoseconds has been assigned             *)
(*   markers     indices of the samples appended by a reallocation          *)
(*   openAtCreation  per index, beginCalls - endCalls when the BeginSample  *)
(*               call that created the sample started                       *)
(*   capacityAtStart  SampleCapacity as the constructor set it              *)
(*   closedAtCreation  per index, endWritten when the BeginSample call that *)
(*               created the sample started                                 *)
(*   unmatched   the BeginSample calls not yet matched by an EndSample      *)
(*               call, oldest first: the index each one assigned and        *)
(*               CurrentSample before it (the live ScopedSampler objects    *)
(*               when the calls come from scoped helpers)                   *)
(***************************************************************************)
EXTENDS Integers, Sequences, FiniteSets

VARIABLES SamplePool, SampleCount, CurrentSample, SampleCapacity, ClockStart,
          clock, heap, appendTo, returned,
          call, beginCalls, endCalls, growths, endWritten, markers,
          openAtCreation, capacityAtStart, closedAtCreation, unmatched

profiler == <<SamplePool, SampleCount, CurrentSample, SampleCapacity, ClockStart>>
history == <<beginCalls, endCalls, growths, endWritten, markers, openAtCreation,
             capacityAtStart, closedAtCreation, unmatched>>
vars == <<SamplePool, SampleCount, CurrentSample, SampleCapacity, ClockStart,
          clock, heap, appendTo, returned,
          call, beginCalls, endCalls, growths, endWritten, markers,
          openAtCreation, capacityAtStart, closedAtCreation, unmatched>>

(***************************************************************************)
(* Bounds of the model.                                                     *)
(***************************************************************************)
\* BeginSample calls in one run.
MaxBeginCalls == 5
\* Largest initialCapacity handed to the constructor.
MaxInitialCapacity == 4
\* Largest elapsed time a run reaches, in nanoseconds.
MaxElapsed == 2
\* Reading of the steady clock when the profiler is constructed.
ClockOrigin == 5
\* BeginSample calls in one run of the specification with exports.
MaxExportBeginCalls == 2
\* BeginSample calls in one run of the specification with unmatched
\* EndSample calls.
MaxUncheckedBeginCalls == 3
\* Largest size the caller's vector may reach.
MaxAppendTo == 4

\* The sentinel of CurrentSample and Sample::Parent.
NoSample == -1
\* The name of the sample a reallocation records.
ReallocateName == "SCGP.Profiler.ReallocateSamplePool"
\* The two overloads of ToChromeTracingEvents, as call.op names them.
ExportOps == {"ToChromeTracingEvents", "ToChromeTracingEventsAppend"}
\* Names the caller passes to BeginSample.
Names == {"A"}
\* initialCapacity arguments of the constructor.
InitialCapacities == (-1)..MaxInitialCapacity
\* What the fields of a slot of `new Sample[n]` hold before they are assigned:
\* the array is default-initialized, so it comes with whatever the heap held
\* (one word for the whole run, below or above every clock reading).
Indeterminate == {0, MaxElapsed + 1}
IndeterminateName == "?"

(***************************************************************************)
(* Helpers                                                                  *)
(***************************************************************************)
\* new Sample[n]
NewSamples(n, w) ==
    [i \in 0..(n - 1) |->
        [Parent |-> w, BeginNanoseconds |-> w, EndNanoseconds |-> w,
         Name |-> IndeterminateName]]

\* The last steady-clock time of a run.
LastTime == ClockStart + MaxElapsed

\* Mutant: the operands of the subtraction are swapped.
ElapsedNanoseconds_Reversed(now) == ClockStart - now

\* Profiler::ElapsedNanoseconds, at steady-clock time now
ElapsedNanoseconds(now) == now - ClockStart

\* Mutant: the constructor takes initialCapacity as it comes.
ClampCapacity_NoClamp(initialCapacity) == initialCapacity

\* initialCapacity < 2 ? 2 : initialCapacity
ClampCapacity(initialCapacity) ==
    IF initialCapacity < 2 THEN 2 ELSE initialCapacity

\* Mutant: the slot is taken after the increment, SamplePool[++SampleCount].
OpenSample_AfterIncrement(pool, count, current, name, t) ==
    [pool EXCEPT ![count + 1] =
        [@ EXCEPT !.Parent = current, !.BeginNanoseconds = t, !.Name = name]]

\* Mutant: the parent is taken to be the previous index, not CurrentSample.
OpenSample_ParentIsPrevious(pool, count, current, name, t) ==
    [pool EXCEPT ![count] =
        [@ EXCEPT !.Parent = count - 1, !.BeginNanoseconds = t, !.Name = name]]

\* BeginSample, the three assignments to SamplePool[SampleCount]
OpenSample(pool, count, current, name, t) ==
    [pool EXCEPT ![count] =
        [@ EXCEPT !.Parent = current, !.BeginNanoseconds = t, !.Name = name]]

\* Mutant: the pool grows only once it is full.
MustGrow_WhenFull(count, capacity) == count >= capacity

\* if (SampleCount + 1 >= SampleCapacity), SampleCount already incremented
MustGrow(count, capacity) == count + 1 >= capacity

\* Mutant: the pool grows by one slot.
NewCapacity_PlusOne(capacity) == capacity + 1

\* auto new_capacity = SampleCapacity * 2
NewCapacity(capacity) == capacity * 2

\* Mutant: the size is given in samples where memcpy wants bytes, so not even
\* the first sample is copied whole; no sample arrives in the new pool.
Memcpy_BytesNotSamples(dst, src, n) == dst

\* Mutant: the copy stops two samples short of the old capacity.
Memcpy_Short(dst, src, n) ==
    [i \in DOMAIN dst |-> IF i < n - 2 /\ i \in DOMAIN src THEN src[i] ELSE dst[i]]

\* std::memcpy(new_sample_pool, SamplePool, SampleCapacity * sizeof(Sample))
Memcpy(dst, src, n) ==
    [i \in DOMAIN dst |-> IF i < n /\ i \in DOMAIN src THEN src[i] ELSE dst[i]]

\* Mutant: the reallocation's sample gets the parent of the sample being
\* opened, which makes it that sample's sibling.
ReallocateSample_Sibling(pool, current, begin, end) ==
    [Parent |-> pool[current].Parent, BeginNanoseconds |-> begin,
     EndNanoseconds |-> end, Name |-> ReallocateName]

\* Mutant: the reallocation's sample names its own index as parent
\* (SampleCount read after CurrentSample = SampleCount++).
ReallocateSample_SelfParent(pool, current, begin, end) ==
    [Parent |-> current + 1, BeginNanoseconds |-> begin, EndNanoseconds |-> end,
     Name |-> ReallocateName]

\* Mutant: the two clock readings of the reallocation are stored swapped.
ReallocateSample_Swapped(pool, current, begin, end) ==
    [Parent |-> current, BeginNanoseconds |-> end, EndNanoseconds |-> begin,
     Name |-> ReallocateName]

\* the reallocation's own sample: the four assignments to the slot after the
\* copy; current is CurrentSample as the statement reads it
ReallocateSample(pool, current, begin, end) ==
    [Parent |-> current, BeginNanoseconds |-> begin, EndNanoseconds |-> end,
     Name |-> ReallocateName]

\* Mutant: ++SampleCount, so CurrentSample is one past the sample opened.
CurrentAfterOpen_PreIncrement(count) == count + 1

\* CurrentSample = SampleCount++ : the value CurrentSample gets
CurrentAfterOpen(count) == count

\* CurrentSample = SampleCount++ : the value SampleCount gets
CountAfterOpen(count) == count + 1

\* Mutant: SamplePool[SampleCount] without the increment, so the next sample
\* overwrites the reallocation's sample.
CountAfterReallocate_NoIncrement(count) == count

\* auto& sample = SamplePool[SampleCount++] of the reallocation: the value
\* SampleCount gets
CountAfterReallocate(count) == count + 1

\* Mutant: EndSample assigns BeginNanoseconds where it means EndNanoseconds.
CloseSample_WritesBegin(pool, current, endTicks) ==
    [pool EXCEPT ![current].BeginNanoseconds = endTicks]

\* auto& sample = SamplePool[CurrentSample]; sample.EndNanoseconds = endTicks
CloseSample(pool, current, endTicks) ==
    [pool EXCEPT ![current].EndNanoseconds = endTicks]

\* Mutant: EndSample leaves CurrentSample on the sample it closed.
ClosedParent_Stays(pool, current) == current

\* Mutant: EndSample steps back to the previous index, not to the parent.
ClosedParent_Previous(pool, current) == current - 1

\* CurrentSample = sample.Parent in EndSample
ClosedParent(pool, current) == pool[current].Parent

\* nanoseconds / 1000.0 printed with %f: whole microseconds and the fraction
Microseconds(ns) == <<ns \div 1000, ns % 1000>>

\* nanoseconds / 1e+6 printed with %f: whole milliseconds and the fraction
Milliseconds(ns) == <<ns \div 1000000, ns % 1000000>>

\* e.EndNanoseconds - e.BeginNanoseconds on std::uint64_t: the difference when
\* end >= begin, else it wraps to 2^64 - (begin - end), kept here as the
\* wrapped flag and the distance.
UnsignedDifference(end, begin) ==
    IF end >= begin THEN [wrapped |-> FALSE, ns |-> end - begin]
    ELSE [wrapped |-> TRUE, ns |-> begin - end]

\* FmtString with the format of ToChromeTracingEvents: the text is the fixed
\* format with its four conversions filled in, kept here as those four.
FmtString(ts, dur, name, ms) ==
    [pid |-> 1, tid |-> 1, ts |-> ts, dur |-> dur, ph |-> "X", name |-> name,
     args |-> [ms |-> ms]]

\* the event string of one sample (the push_back argument)
ChromeTracingEvent(e) ==
    LET d == UnsignedDifference(e.EndNanoseconds, e.BeginNanoseconds)
    IN  FmtString(Microseconds(e.BeginNanoseconds),
                  [wrapped |-> d.wrapped, us |-> Microseconds(d.ns)],
                  e.Name,
                  [wrapped |-> d.wrapped, ms |-> Milliseconds(d.ns)])

\* Mutant: the loop stops one sample early (i < SampleCount - 1).
RECURSIVE ExportLoop_StopsEarly(_, _, _, _)
ExportLoop_StopsEarly(pool, count, i, list) ==
    IF i < count - 1
    THEN ExportLoop_StopsEarly(pool, count, i + 1,
                               Append(list, ChromeTracingEvent(pool[i])))
    ELSE list

\* for (int i = ...; i < profiler.SampleCount; i++) appendTo.push_back(...)
RECURSIVE ExportLoop(_, _, _, _)
ExportLoop(pool, count, i, list) ==
    IF i < count
    THEN ExportLoop(pool, count, i + 1, Append(list, ChromeTracingEvent(pool[i])))
    ELSE list

(***************************************************************************)
(* Construction                                                             *)
(***************************************************************************)
Init ==
    /\ heap \in Indeterminate
    /\ \E initialCapacity \in InitialCapacities :
          /\ SampleCapacity = ClampCapacity(initialCapacity)
          /\ SamplePool = NewSamples(ClampCapacity(initialCapacity), heap)
          /\ call = [op |-> "Profiler", arg |-> initialCapacity]
    /\ SampleCount = 0
    /\ CurrentSample = NoSample
    /\ clock = ClockOrigin
    /\ ClockStart = clock
    /\ appendTo = <<>>
    /\ returned = <<>>
    /\ beginCalls = 0
    /\ endCalls = 0
    /\ growths = 0
    /\ endWritten = {}
    /\ markers = {}
    /\ openAtCreation = <<>>
    /\ capacityAtStart = SampleCapacity
    /\ closedAtCreation = <<>>
    /\ unmatched = <<>>

(***************************************************************************)
(* Operations                                                               *)
(***************************************************************************)
\* void BeginSample(const char* name); c1, c2, c3 are the steady-clock times
\* of its ElapsedNanoseconds() calls (the last two only when the pool grows).
BeginSample ==
    /\ beginCalls < MaxBeginCalls
    /\ \E name \in Names, c1 \in clock..LastTime :
        LET index == SampleCount
            opened == OpenSample(SamplePool, index, CurrentSample, name,
                                 ElapsedNanoseconds(c1))
            current1 == CurrentAfterOpen(SampleCount)
            count1 == CountAfterOpen(SampleCount)
            open == beginCalls - endCalls
        IN  IF MustGrow(count1, SampleCapacity)
            THEN \E c2 \in c1..LastTime :
                 \E c3 \in c2..LastTime :
                    LET begin == ElapsedNanoseconds(c2)
                        new_capacity == NewCapacity(SampleCapacity)
                        new_sample_pool ==
                            Memcpy(NewSamples(new_capacity, heap), opened,
                                   SampleCapacity)
                        end == ElapsedNanoseconds(c3)
                        marker == count1
                    IN  /\ SamplePool' =
                              [new_sample_pool EXCEPT
                                  ![marker] =
                                      ReallocateSample(new_sample_pool, current1,
                                                       begin, end)]
                        /\ SampleCapacity' = new_capacity
                        /\ SampleCount' = CountAfterReallocate(count1)
                        /\ CurrentSample' = current1
                        /\ clock' = c3
                        /\ growths' = growths + 1
                        /\ endWritten' = (endWritten \ {index}) \cup {marker}
                        /\ markers' = (markers \ {index}) \cup {marker}
                        /\ openAtCreation' =
                              [i \in 0..marker |->
                                  IF i < index THEN openAtCreation[i] ELSE open]
                        /\ closedAtCreation' =
                              [i \in 0..marker |->
                                  IF i < index THEN closedAtCreation[i]
                                  ELSE endWritten]
                        /\ call' = [op |-> "BeginSample", name |-> name,
                                    t |-> ElapsedNanoseconds(c1), grew |-> TRUE,
                                    opened |-> opened,
                                    accesses |-> {<<index, SampleCapacity>>,
                                                  <<marker, new_capacity>>}]
            ELSE /\ SamplePool' = opened
                 /\ SampleCapacity' = SampleCapacity
                 /\ SampleCount' = count1
                 /\ CurrentSample' = current1
                 /\ clock' = c1
                 /\ growths' = growths
                 /\ endWritten' = endWritten \ {index}
                 /\ markers' = markers \ {index}
                 /\ openAtCreation' =
                       [i \in 0..index |->
                           IF i < index THEN openAtCreation[i] ELSE open]
                 /\ closedAtCreation' =
                       [i \in 0..index |->
                           IF i < index THEN closedAtCreation[i] ELSE endWritten]
                 /\ call' = [op |-> "BeginSample", name |-> name,
                             t |-> ElapsedNanoseconds(c1), grew |-> FALSE,
                             accesses |-> {<<index, SampleCapacity>>}]
    /\ beginCalls' = beginCalls + 1
    /\ unmatched' = Append(unmatched, [opened |-> SampleCount,
                                       before |-> CurrentSample])
    /\ returned' = <<>>
    /\ UNCHANGED <<ClockStart, heap, appendTo, endCalls, capacityAtStart>>

\* void EndSample() with SamplePool[index] as its sample. An index outside
\* the pool is undefined behaviour: the write lands outside the pool and the
\* Parent read there is any word.
EndSampleAccess(index) ==
    \E c \in clock..LastTime :
        LET endTicks == ElapsedNanoseconds(c)
        IN  /\ IF index \in DOMAIN SamplePool
               THEN /\ SamplePool' = CloseSample(SamplePool, index, endTicks)
                    /\ CurrentSample' = ClosedParent(SamplePool, index)
               ELSE /\ SamplePool' = SamplePool
                    /\ CurrentSample' \in Indeterminate \cup {NoSample}
            /\ clock' = c
            /\ endWritten' = endWritten \cup ({index} \cap DOMAIN SamplePool)
            /\ call' = [op |-> "EndSample", t |-> endTicks, index |-> index,
                        accesses |-> {<<index, SampleCapacity>>}]
            /\ endCalls' = endCalls + 1
            /\ unmatched' = SubSeq(unmatched, 1, Len(unmatched) - 1)
            /\ returned' = <<>>
            /\ UNCHANGED <<SampleCount, SampleCapacity, ClockStart, heap, appendTo,
                           beginCalls, growths, markers, openAtCreation,
                           capacityAtStart, closedAtCreation>>

\* Mutant: EndSample returns at once when no sample is open.
EndSampleBody_Checked ==
    IF CurrentSample = NoSample
    THEN /\ call' = [op |-> "EndSample", t |-> ElapsedNanoseconds(clock),
                     index |-> CurrentSample, accesses |-> {}]
         /\ endCalls' = endCalls + 1
         /\ returned' = <<>>
         /\ UNCHANGED <<profiler, clock, heap, appendTo, beginCalls, growths,
                        endWritten, markers, openAtCreation, capacityAtStart,
                        closedAtCreation, unmatched>>
    ELSE EndSampleAccess(CurrentSample)

\* The body of void EndSample(): it indexes the pool with CurrentSample,
\* whatever CurrentSample is.
EndSampleBody == EndSampleAccess(CurrentSample)

\* void EndSample(), called by a caller that keeps its calls well nested:
\* never more EndSample than BeginSample calls.
EndSample ==
    /\ endCalls < beginCalls
    /\ EndSampleBody

\* static void ToChromeTracingEvents(const Profiler&, std::vector<std::string>&)
\* on the caller's vector appendTo.
ToChromeTracingEventsAppend ==
    /\ Len(appendTo) + SampleCount <= MaxAppendTo
    /\ appendTo' = ExportLoop(SamplePool, SampleCount, 0, appendTo)
    /\ returned' = <<>>
    /\ call' = [op |-> "ToChromeTracingEventsAppend", again |-> call.op \in ExportOps]
    /\ UNCHANGED <<profiler, clock, heap, history>>

\* Mutant: the export closes the open sample's record as it reads it.
ToChromeTracingEvents_Writes ==
    /\ returned' = ExportLoop(SamplePool, SampleCount, 0, <<>>)
    /\ call' = [op |-> "ToChromeTracingEvents", again |-> call.op \in ExportOps]
    /\ SamplePool' =
          [i \in DOMAIN SamplePool |->
              IF i = CurrentSample
              THEN [SamplePool[i] EXCEPT !.EndNanoseconds = ElapsedNanoseconds(clock)]
              ELSE SamplePool[i]]
    /\ UNCHANGED <<SampleCount, CurrentSample, SampleCapacity, ClockStart,
                   clock, heap, appendTo, history>>

\* static std::vector<std::string> ToChromeTracingEvents(const Profiler&)
ToChromeTracingEvents ==
    /\ returned' = ExportLoop(SamplePool, SampleCount, 0, <<>>)
    /\ call' = [op |-> "ToChromeTracingEvents", again |-> call.op \in ExportOps]
    /\ UNCHANGED <<profiler, clock, heap, appendTo, history>>

\* BeginSample in the runs that also export
BeginSampleExported ==
    /\ beginCalls < MaxExportBeginCalls
    /\ BeginSample

\* ScopedSampler ScopedSample(const char* name): the ScopedSampler constructor
\* stores the owner and calls Owner->BeginSample(name).
ScopedSample == BeginSample

\* ~ScopedSampler() of the innermost live ScopedSampler: Owner->EndSample().
DestroyScopedSampler ==
    /\ unmatched # <<>>
    /\ EndSampleBody

\* void EndSample() called by a caller that has no BeginSample call left to
\* match.
EndSampleUnmatched ==
    /\ endCalls >= beginCalls
    /\ EndSampleBody

\* The latest call indexed the pool outside 0..SampleCapacity-1; what the
\* program does from there on is undefined.
OutOfRangeAccess ==
    /\ call.op \in {"BeginSample", "EndSample"}
    /\ \E a \in call.accesses : a[1] \notin 0..(a[2] - 1)

Next == BeginSample \/ EndSample

NextScoped == ScopedSample \/ DestroyScopedSampler

SpecScoped == Init /\ [][NextScoped]_vars

NextUnchecked ==
    \/ ~OutOfRangeAccess /\ beginCalls < MaxUncheckedBeginCalls /\ BeginSample
    \/ ~OutOfRangeAccess /\ EndSample
    \/ ~OutOfRangeAccess /\ EndSampleUnmatched

SpecUnchecked == Init /\ [][NextUnchecked]_vars

NextExport ==
    \/ BeginSampleExported
    \/ EndSample
    \/ ToChromeTracingEventsAppend
    \/ ToChromeTracingEvents

SpecExport == Init /\ [][NextExport]_vars

Spec == Init /\ [][Next]_vars

(***************************************************************************)
(* Vocabulary of the properties                                             *)
(***************************************************************************)
\* Indices of the recorded samples.
Recorded == 0..(SampleCount - 1)

\* Recorded samples whose EndNanoseconds has not been assigned.
Unended == {i \in Recorded : i \notin endWritten}

\* Samples met by following Parent from i, at most fuel of them.
RECURSIVE ParentPath(_, _)
ParentPath(i, fuel) ==
    IF i \notin Recorded \/ fuel = 0 THEN {}
    ELSE {i} \cup ParentPath(SamplePool[i].Parent, fuel - 1)

\* Following Parent from i reaches the sentinel within fuel samples.
RECURSIVE ReachesTop(_, _)
ReachesTop(i, fuel) ==
    \/ i = NoSample
    \/ /\ i \in Recorded
       /\ fuel > 0
       /\ ReachesTop(SamplePool[i].Parent, fuel - 1)

\* Parent links followed from i to a sample whose Parent is the sentinel;
\* -1 when there is no such sample within fuel links.
RECURSIVE StepsToTop(_, _)
StepsToTop(i, fuel) ==
    IF i \notin Recorded \/ fuel = 0 THEN -1
    ELSE IF SamplePool[i].Parent = NoSample THEN 0
    ELSE LET rest == StepsToTop(SamplePool[i].Parent, fuel - 1)
         IN  IF rest = -1 THEN -1 ELSE rest + 1

\* The step is a BeginSample call / one that reallocated / an EndSample call.
BeginStep == beginCalls' = beginCalls + 1
GrowthStep == BeginStep /\ growths' = growths + 1
EndStep == endCalls' = endCalls + 1

\* The events of the latest export: the returned vector, or the tail the
\* append variant added to appendTo.
LastExported ==
    IF call.op = "ToChromeTracingEvents" THEN returned
    ELSE SubSeq(appendTo, Len(appendTo) - SampleCount + 1, Len(appendTo))

(***************************************************************************)
(* C1: in every state of a well-nested run the samples whose end has not    *)
(* been written are exactly those on the parent path from CurrentSample,    *)
(* which ends at a top-level sample; with CurrentSample the sentinel there  *)
(* are none; a reallocation's sample is never among them.                   *)
(***************************************************************************)
C1_UnendedIsPathFromCurrent ==
    /\ Unended = ParentPath(CurrentSample, SampleCount)
    /\ ReachesTop(CurrentSample, SampleCount)
    /\ CurrentSample = NoSample => Unended = {}
    /\ markers \cap Unended = {}

C1_Witness ==
    /\ Cardinality(Unended) >= 2
    /\ markers # {}
    /\ endCalls >= 1
    /\ \E i \in Recorded \ Unended : i \notin markers

(***************************************************************************)
(* C2 as stated: a BeginSample call that reallocates gives the              *)
(* reallocation's sample the parent CurrentSample had before the call, and  *)
(* not the index of the sample being opened.                                *)
(***************************************************************************)
C2_MarkerIsSibling ==
    [][GrowthStep =>
         /\ SamplePool'[SampleCount + 1].Parent = CurrentSample
         /\ SamplePool'[SampleCount + 1].Parent # SampleCount]_vars

(***************************************************************************)
(* C2 amended: a BeginSample call that reallocates gives the reallocation's *)
(* sample, recorded right after the sample being opened, the index of the   *)
(* sample being opened as its parent (the value CurrentSample has after     *)
(* the call); the sample being opened has the parent CurrentSample had      *)
(* before the call.                                                         *)
(***************************************************************************)
C2_MarkerIsChild ==
    [][GrowthStep =>
         /\ SampleCount' = SampleCount + 2
         /\ markers' = markers \cup {SampleCount + 1}
         /\ SamplePool'[SampleCount + 1].Parent = SampleCount
         /\ SamplePool'[SampleCount + 1].Parent = CurrentSample'
         /\ SamplePool'[SampleCount].Parent = CurrentSample]_vars

C2_Witness ==
    /\ call.op = "BeginSample"
    /\ call.grew
    /\ beginCalls - endCalls >= 2
    /\ SamplePool[CurrentSample].Parent # NoSample

(***************************************************************************)
(* C3: once every BeginSample has been matched by its EndSample,            *)
(* CurrentSample is the sentinel, whatever the initial capacity and the     *)
(* number of reallocations.                                                 *)
(***************************************************************************)
C3_BalancedMeansNoOpenSample ==
    beginCalls = endCalls => CurrentSample = NoSample

C3_Witness ==
    /\ beginCalls = endCalls
    /\ beginCalls >= 3
    /\ growths >= 2
    /\ \E i \in Recorded : SamplePool[i].Parent \notin {NoSample} \cup markers

(***************************************************************************)
(* C4 as stated: from every recorded sample, reallocations' samples         *)
(* included, the parent links reach a top-level sample in as many steps as  *)
(* there were open samples when the BeginSample call that created it        *)
(* started.                                                                 *)
(***************************************************************************)
C4_DepthIsOpenAtCreation ==
    \A i \in Recorded : StepsToTop(i, SampleCount) = openAtCreation[i]

(***************************************************************************)
(* C4 amended: from every recorded sample the parent links reach a          *)
(* top-level sample in finitely many steps: as many as there were open      *)
(* samples when the BeginSample call that created it started for a sample   *)
(* the caller opened, and one more than that for a reallocation's sample    *)
(* (it is a child of the sample that call opened).                          *)
(***************************************************************************)
C4_DepthIsNestingAtCreation ==
    \A i \in Recorded :
        StepsToTop(i, SampleCount) =
            openAtCreation[i] + (IF i \in markers THEN 1 ELSE 0)

C4_Witness ==
    /\ \E i \in Recorded \ markers : StepsToTop(i, SampleCount) >= 2
    /\ \E i \in markers : StepsToTop(i, SampleCount) >= 2
    /\ endCalls >= 1

(***************************************************************************)
(* C5: a BeginSample call reallocates exactly when the pool has fewer than  *)
(* 2 free slots after the new sample is appended; a reallocation doubles    *)
(* SampleCapacity, a call without one leaves it unchanged, and no call      *)
(* reallocates more than once.                                              *)
(***************************************************************************)
C5_GrowthPolicy ==
    [][BeginStep =>
         LET free == SampleCapacity - (SampleCount + 1)
         IN  /\ (growths' # growths) <=> (free < 2)
             /\ free < 2 =>
                  /\ SampleCapacity' = 2 * SampleCapacity
                  /\ growths' = growths + 1
                  /\ DOMAIN SamplePool' = 0..(2 * SampleCapacity - 1)
             /\ free >= 2 =>
                  /\ SampleCapacity' = SampleCapacity
                  /\ DOMAIN SamplePool' = DOMAIN SamplePool]_vars

C5_Witness ==
    /\ call.op = "BeginSample"
    /\ ~call.grew
    /\ growths >= 2
    /\ SampleCapacity - SampleCount = 2

(***************************************************************************)
(* C6: a reallocation leaves every sample recorded before it, the sample    *)
(* just opened by the same BeginSample call included, with the same name,   *)
(* parent, begin and end at the same index, and adds exactly one record,    *)
(* named "SCGP.Profiler.ReallocateSamplePool", at the next index.           *)
(***************************************************************************)
C6_GrowthKeepsSamples ==
    [][GrowthStep =>
         /\ \A i \in 0..(SampleCount - 1) : SamplePool'[i] = SamplePool[i]
         /\ \A i \in 0..SampleCount : SamplePool'[i] = call'.opened[i]
         /\ SamplePool'[SampleCount].Name = call'.name
         /\ SamplePool'[SampleCount].BeginNanoseconds = call'.t
         /\ SamplePool'[SampleCount].EndNanoseconds =
                SamplePool[SampleCount].EndNanoseconds
         /\ SampleCount' = SampleCount + 2
         /\ SamplePool'[SampleCount + 1].Name = ReallocateName]_vars

C6_Witness ==
    /\ call.op = "BeginSample"
    /\ call.grew
    /\ SampleCount >= 4
    /\ Cardinality(Unended) >= 2
    /\ \E i \in Recorded \ Unended : i \notin markers

(***************************************************************************)
(* C7: with the clock a non-decreasing non-negative counter, every sample   *)
(* whose end has been written (reallocations' samples included) has         *)
(* begin <= end, begin and written end are >= 0, and begin is               *)
(* non-decreasing in pool order.                                            *)
(***************************************************************************)
C7_Monotonicity ==
    /\ \A i \in Recorded :
          /\ SamplePool[i].BeginNanoseconds >= 0
          /\ i \in endWritten =>
                SamplePool[i].BeginNanoseconds <= SamplePool[i].EndNanoseconds
    /\ \A i \in Recorded :
          i + 1 \in Recorded =>
             SamplePool[i].BeginNanoseconds <= SamplePool[i + 1].BeginNanoseconds

C7_Witness ==
    /\ \E i \in markers :
          SamplePool[i].BeginNanoseconds < SamplePool[i].EndNanoseconds
    /\ \E i \in (Recorded \cap endWritten) \ markers :
          SamplePool[i].BeginNanoseconds < SamplePool[i].EndNanoseconds
    /\ \E i \in Unended :
          SamplePool[i].BeginNanoseconds > SamplePool[i].EndNanoseconds
    /\ SamplePool[0].BeginNanoseconds < SamplePool[SampleCount - 1].BeginNanoseconds

(***************************************************************************)
(* C8: an export appends exactly SampleCount events to its target, the      *)
(* k-th of them built from the sample at pool index k whatever the          *)
(* nesting, and leaves the elements already in the target unchanged; the    *)
(* convenience variant returns what the append variant appends to an empty  *)
(* vector.                                                                  *)
(***************************************************************************)
C8_ExportCompleteness ==
    [][/\ call'.op = "ToChromeTracingEventsAppend" =>
            /\ Len(appendTo') = Len(appendTo) + SampleCount
            /\ \A k \in 1..Len(appendTo) : appendTo'[k] = appendTo[k]
            /\ \A k \in Recorded :
                  appendTo'[Len(appendTo) + k + 1] =
                      ChromeTracingEvent(SamplePool[k])
       /\ call'.op = "ToChromeTracingEvents" =>
            /\ Len(returned') = SampleCount
            /\ \A k \in Recorded :
                  returned'[k + 1] = ChromeTracingEvent(SamplePool[k])]_vars

C8_Witness ==
    /\ call.op = "ToChromeTracingEventsAppend"
    /\ SampleCount >= 2
    /\ Len(appendTo) > SampleCount
    /\ markers # {}
    /\ Unended # {}

(***************************************************************************)
(* C9: an export leaves SamplePool, SampleCount, CurrentSample and          *)
(* SampleCapacity unchanged, and an export that follows an export with no   *)
(* BeginSample or EndSample in between produces the same events.            *)
(***************************************************************************)
C9_ExportIsPureRead ==
    [][call'.op \in ExportOps =>
         /\ UNCHANGED <<SamplePool, SampleCount, CurrentSample, SampleCapacity>>
         /\ call.op \in ExportOps => LastExported' = LastExported]_vars

C9_Witness ==
    /\ call.op \in ExportOps
    /\ call.again
    /\ SampleCount >= 2
    /\ Unended # {}
    /\ Len(LastExported) = SampleCount

(***************************************************************************)
(* C10: after k BeginSample calls of a well-nested run the pool holds k     *)
(* samples with the caller's names plus one reallocation's sample per       *)
(* reallocation, and the export has one event for each; a profiler          *)
(* constructed with capacity 2 that performed 5 Begin/End pairs exports 5   *)
(* events with the caller's names and at least one reallocation event.      *)
(***************************************************************************)
C10_SampleCountIsCallsPlusGrowths ==
    /\ SampleCount = beginCalls + growths
    /\ markers \subseteq Recorded
    /\ Cardinality(markers) = growths
    /\ Cardinality(Recorded \ markers) = beginCalls
    /\ \A i \in Recorded \ markers : SamplePool[i].Name \in Names
    /\ \A i \in markers : SamplePool[i].Name = ReallocateName
    /\ (capacityAtStart = 2 /\ beginCalls = 5 /\ endCalls = 5) =>
          LET events == ExportLoop(SamplePool, SampleCount, 0, <<>>)
          IN  /\ Cardinality({k \in 1..Len(events) : events[k].name \in Names}) = 5
              /\ Cardinality({k \in 1..Len(events) :
                                events[k].name = ReallocateName}) >= 1
              /\ Len(events) = 5 + growths

C10_Witness ==
    /\ capacityAtStart = 2
    /\ beginCalls = 5
    /\ endCalls = 5
    /\ growths = 3

(***************************************************************************)
(* C11: a sample with a parent begins no earlier than its parent, and once  *)
(* both are closed it ends no later than its parent; Begin(A), Begin(B),    *)
(* End, End without reallocation records exactly 2 samples, B with parent   *)
(* A, A.begin <= B.begin and B.end <= A.end.                                *)
(***************************************************************************)
C11_NestedInParentWindow ==
    /\ \A i \in Recorded :
          LET p == SamplePool[i].Parent
          IN  p # NoSample =>
                /\ p \in Recorded
                /\ SamplePool[p].BeginNanoseconds <= SamplePool[i].BeginNanoseconds
                /\ (i \in endWritten /\ p \in endWritten) =>
                      SamplePool[i].EndNanoseconds <= SamplePool[p].EndNanoseconds
    /\ (beginCalls = 2 /\ endCalls = 2 /\ growths = 0 /\ openAtCreation[1] = 1) =>
          /\ SampleCount = 2
          /\ SamplePool[0].Parent = NoSample
          /\ SamplePool[1].Parent = 0
          /\ SamplePool[0].BeginNanoseconds <= SamplePool[1].BeginNanoseconds
          /\ SamplePool[1].EndNanoseconds <= SamplePool[0].EndNanoseconds

C11_Witness ==
    /\ beginCalls = 2
    /\ endCalls = 2
    /\ growths = 0
    /\ openAtCreation[1] = 1
    /\ SamplePool[0].BeginNanoseconds < SamplePool[1].BeginNanoseconds
    /\ SamplePool[1].EndNanoseconds < SamplePool[0].EndNanoseconds

(***************************************************************************)
(* C12: a sample the caller opens while no sample is open has the sentinel  *)
(* as parent, and a sample that was closed before another was opened ends   *)
(* no later than the other begins; Begin(A), End, Begin(C), End yields A    *)
(* and C with the sentinel as parent and A.end <= C.begin.                  *)
(***************************************************************************)
C12_SequentialSamplesAreSiblings ==
    /\ \A y \in Recorded :
          /\ (y \notin markers /\ openAtCreation[y] = 0) =>
                SamplePool[y].Parent = NoSample
          /\ \A x \in closedAtCreation[y] :
                SamplePool[x].EndNanoseconds <= SamplePool[y].BeginNanoseconds
    /\ (beginCalls = 2 /\ endCalls = 2) =>
          \A c \in Recorded \ markers :
             (c > 0 /\ openAtCreation[c] = 0) =>
                /\ SamplePool[0].Parent = NoSample
                /\ SamplePool[c].Parent = NoSample
                /\ SamplePool[0].EndNanoseconds <= SamplePool[c].BeginNanoseconds

C12_Witness ==
    /\ beginCalls = 2
    /\ endCalls = 2
    /\ \E c \in Recorded \ markers :
          /\ c > 0
          /\ openAtCreation[c] = 0
          /\ 0 \in closedAtCreation[c]
          /\ SamplePool[0].EndNanoseconds < SamplePool[c].BeginNanoseconds

(***************************************************************************)
(* C13: across every operation (BeginSample, reallocation, EndSample, both  *)
(* exports) SampleCount never decreases and every recorded sample keeps its *)
(* parent, name and begin: the only field written after a sample's creation *)
(* is its end.                                                              *)
(***************************************************************************)
C13_AppendOnly ==
    [][/\ SampleCount' >= SampleCount
       /\ \A i \in Recorded :
             /\ SamplePool'[i].Parent = SamplePool[i].Parent
             /\ SamplePool'[i].Name = SamplePool[i].Name
             /\ SamplePool'[i].BeginNanoseconds = SamplePool[i].BeginNanoseconds
             /\ SamplePool'[i] =
                   [SamplePool[i] EXCEPT
                       !.EndNanoseconds = SamplePool'[i].EndNanoseconds]]_vars

C13_Witness ==
    /\ call.op \in ExportOps
    /\ growths >= 2
    /\ endCalls >= 2
    /\ SampleCount >= 4
    /\ appendTo # <<>>

(***************************************************************************)
(* C14: with properly nested scoped helpers, the EndSample call a scope's   *)
(* exit issues closes the sample that scope's construction opened:          *)
(* CurrentSample is then the index that scope's BeginSample assigned, also  *)
(* when that call or an inner one reallocated, and afterwards               *)
(* CurrentSample is what it was before the scope was entered.               *)
(***************************************************************************)
C14_ScopeClosesItsOwnSample ==
    [][EndStep =>
         LET scope == unmatched[Len(unmatched)]
         IN  /\ CurrentSample = scope.opened
             /\ scope.opened \notin markers
             /\ SamplePool' =
                   [SamplePool EXCEPT ![scope.opened].EndNanoseconds = call'.t]
             /\ CurrentSample' = scope.before]_vars

C14_Witness ==
    /\ call.op = "EndSample"
    /\ call.index + 1 \in markers
    /\ growths >= 2
    /\ unmatched # <<>>
    /\ CurrentSample = unmatched[Len(unmatched)].opened
    /\ CurrentSample + 1 \in markers

(***************************************************************************)
(* C15: EndSample has no check for the case that no sample is open: called  *)
(* with CurrentSample the sentinel -1 (as is every EndSample call beyond    *)
(* the BeginSample calls), it reports nothing and indexes the pool at -1,   *)
(* outside 0..SampleCapacity-1.                                             *)
(***************************************************************************)
C15_UnmatchedEndIndexesOutsidePool ==
    [][EndStep =>
         /\ endCalls >= beginCalls => CurrentSample = NoSample
         /\ CurrentSample = NoSample =>
              /\ call'.accesses = {<<NoSample, SampleCapacity>>}
              /\ NoSample \notin 0..(SampleCapacity - 1)
              /\ NoSample \notin DOMAIN SamplePool
              /\ returned' = <<>>
              /\ OutOfRangeAccess']_vars

C15_Witness ==
    /\ OutOfRangeAccess
    /\ call.op = "EndSample"
    /\ call.index = NoSample
    /\ endCalls = beginCalls + 1
    /\ beginCalls >= 2
    /\ growths >= 1
    /\ CurrentSample # NoSample

(***************************************************************************)
(* C16: construction with initial capacity c gives SampleCount = 0,         *)
(* CurrentSample = -1 and SampleCapacity = max(c, 2); SampleCapacity is     *)
(* never below 2 afterwards.                                                *)
(***************************************************************************)
C16_ConstructionClampsCapacity ==
    /\ call.op = "Profiler" =>
          /\ SampleCount = 0
          /\ CurrentSample = NoSample
          /\ SampleCapacity = (IF call.arg > 2 THEN call.arg ELSE 2)
          /\ DOMAIN SamplePool = 0..(SampleCapacity - 1)
    /\ capacityAtStart >= 2
    /\ SampleCapacity >= capacityAtStart

C16_Witness ==
    /\ call.op = "Profiler"
    /\ call.arg < 2
    /\ SampleCapacity = 2
    /\ Cardinality(DOMAIN SamplePool) = 2

(***************************************************************************)
(* C17: BeginSample records the new sample at the index SampleCount had,    *)
(* with the parent CurrentSample had, and leaves CurrentSample at that      *)
(* index, also when it reallocates: a reallocation's sample is never        *)
(* CurrentSample and never the sample an EndSample call closes.             *)
(***************************************************************************)
C17_BeginSampleOpensAtOldCount ==
    [][/\ BeginStep =>
            /\ SamplePool'[SampleCount].Parent = CurrentSample
            /\ SamplePool'[SampleCount].Name = call'.name
            /\ SamplePool'[SampleCount].BeginNanoseconds = call'.t
            /\ SampleCount' > SampleCount
            /\ CurrentSample' = SampleCount
            /\ SampleCount \notin markers'
       /\ CurrentSample' \notin markers'
       /\ EndStep =>
            /\ CurrentSample \notin markers
            /\ endWritten' \ endWritten = {CurrentSample}]_vars

C17_Witness ==
    /\ call.op = "BeginSample"
    /\ call.grew
    /\ CurrentSample = SampleCount - 2
    /\ SamplePool[CurrentSample].Parent # NoSample
    /\ endCalls >= 1

(***************************************************************************)
(* C18: EndSample called with a sample open writes end on the sample at     *)
(* index CurrentSample only, then sets CurrentSample to that sample's       *)
(* parent; SampleCount, SampleCapacity and every other field of every       *)
(* sample stay as they were.                                                *)
(***************************************************************************)
C18_EndSampleFrame ==
    [][EndStep =>
         /\ CurrentSample \in Recorded
         /\ SamplePool' =
               [SamplePool EXCEPT ![CurrentSample].EndNanoseconds = call'.t]
         /\ CurrentSample' = SamplePool[CurrentSample].Parent
         /\ SampleCount' = SampleCount
         /\ SampleCapacity' = SampleCapacity]_vars

C18_Witness ==
    /\ call.op = "EndSample"
    /\ CurrentSample # NoSample
    /\ markers # {}
    /\ SamplePool[call.index].EndNanoseconds = call.t
    /\ SamplePool[call.index].EndNanoseconds # heap
    /\ SamplePool[call.index].BeginNanoseconds < call.t
    /\ Cardinality(Unended) >= 2

(***************************************************************************)
(* C19: between the operations of a well-nested run SampleCount + 2 <=      *)
(* SampleCapacity, so every pool access of BeginSample (the new sample and, *)
(* on reallocation, the reallocation's sample), of EndSample and of the     *)
(* export is inside 0..SampleCapacity-1; one doubling restores the          *)
(* inequality.                                                              *)
(***************************************************************************)
C19_TwoFreeSlots ==
    /\ SampleCount + 2 <= SampleCapacity
    /\ DOMAIN SamplePool = 0..(SampleCapacity - 1)
    /\ Recorded \subseteq DOMAIN SamplePool
    /\ call.op \in {"BeginSample", "EndSample"} =>
          \A a \in call.accesses : a[1] \in 0..(a[2] - 1)
    /\ ~OutOfRangeAccess

C19_Witness ==
    /\ call.op = "BeginSample"
    /\ call.grew
    /\ SampleCount + 2 = SampleCapacity
    /\ <<SampleCount - 1, SampleCapacity>> \in call.accesses

(***************************************************************************)
(* C20: in every state of a well-nested run every recorded sample i has     *)
(* -1 <= parent < i, and CurrentSample is -1 or an index below SampleCount. *)
(***************************************************************************)
C20_ParentsPointBackwards ==
    /\ \A i \in Recorded :
          /\ NoSample <= SamplePool[i].Parent
          /\ SamplePool[i].Parent < i
    /\ \/ CurrentSample = NoSample
       \/ /\ 0 <= CurrentSample
          /\ CurrentSample < SampleCount

C20_Witness ==
    /\ \E i \in Recorded : SamplePool[i].Parent = i - 1 /\ i > 0
    /\ \E i \in Recorded :
          /\ SamplePool[i].Parent # NoSample
          /\ SamplePool[i].Parent < i - 1
    /\ CurrentSample # NoSample
    /\ CurrentSample < SampleCount - 2
====
